---- MODULE Spec2Model ----
(***************************************************************************)
(* A model of app.py: the snapshot folder and its staleness check, the     *)
(* in-memory stock_info_cache, the chart generators' error handling, and   *)
(* the three request handlers (index GET, index POST, fetch_data) with the *)
(* fetch_data handler split at the points where another request thread can *)
(* run.  Strings are sequences of one-character strings, so that str.split, *)
(* str.strip, str.upper, str.replace, list.sort, strftime and strptime are  *)
(* computed rather than assumed.                                            *)
(***************************************************************************)
EXTENDS Integers, Sequences, FiniteSets, TLC

(***************************************************************************)
(* Characters and strings                                                  *)
(***************************************************************************)

\* Python's ord() on the characters the model uses (str comparison is by code point).
Ord(c) ==
    CASE c = " " -> 32 [] c = "," -> 44 [] c = "-" -> 45 [] c = "." -> 46
      [] c = "0" -> 48 [] c = "1" -> 49 [] c = "2" -> 50 [] c = "3" -> 51
      [] c = "4" -> 52 [] c = "5" -> 53 [] c = "6" -> 54 [] c = "7" -> 55
      [] c = "8" -> 56 [] c = "9" -> 57
      [] c = "A" -> 65 [] c = "B" -> 66 [] c = "C" -> 67
      [] c = "_" -> 95
      [] c = "a" -> 97 [] c = "b" -> 98 [] c = "c" -> 99 [] c = "h" -> 104
      [] c = "j" -> 106 [] c = "k" -> 107 [] c = "n" -> 110 [] c = "o" -> 111
      [] c = "p" -> 112 [] c = "s" -> 115 [] c = "t" -> 116 [] c = "x" -> 120

DigitChars == <<"0", "1", "2", "3", "4", "5", "6", "7", "8", "9">>

IsDigit(c) == \E i \in 1..10 : DigitChars[i] = c

DigitVal(c) == (CHOOSE i \in 1..10 : DigitChars[i] = c) - 1

\* s[i:j] of Python, 1-based and inclusive here; empty when i > j.
Slice(s, i, j) == IF i > j THEN << >> ELSE SubSeq(s, i, j)

\* str.startswith
StartsWith(s, p) == Len(s) >= Len(p) /\ SubSeq(s, 1, Len(p)) = p

\* str.endswith
EndsWith(s, p) == Len(s) >= Len(p) /\ SubSeq(s, Len(s) - Len(p) + 1, Len(s)) = p

\* str.replace(old, ""): every non-overlapping occurrence, found left to right, is removed.
RECURSIVE RemoveAll(_, _)
RemoveAll(s, old) ==
    IF s = << >> THEN << >>
    ELSE IF StartsWith(s, old) THEN RemoveAll(Slice(s, Len(old) + 1, Len(s)), old)
    ELSE <<Head(s)>> \o RemoveAll(Tail(s), old)

\* Python's str "<": the first differing code point decides, a proper prefix is smaller.
RECURSIVE StrLess(_, _)
StrLess(a, b) ==
    IF b = << >> THEN FALSE
    ELSE IF a = << >> THEN TRUE
    ELSE IF Head(a) = Head(b) THEN StrLess(Tail(a), Tail(b))
    ELSE Ord(Head(a)) < Ord(Head(b))

\* snapshot_files.sort(); snapshot_files[0]: the least name.
SortFirst(names) == CHOOSE n \in names : \A m \in names : m = n \/ StrLess(n, m)

\* snapshot_files.sort(reverse=True); snapshot_files[0]: the greatest name.
SortReverseFirst(names) == CHOOSE n \in names : \A m \in names : m = n \/ StrLess(m, n)

\* str.upper on the letters of the model's alphabet.
UpperChar(c) ==
    CASE c = "a" -> "A" [] c = "b" -> "B" [] c = "c" -> "C" [] OTHER -> c

Upper(s) == [i \in 1..Len(s) |-> UpperChar(s[i])]

\* str.strip(): leading and trailing whitespace removed.
RECURSIVE LStrip(_)
LStrip(s) == IF s # << >> /\ Head(s) = " " THEN LStrip(Tail(s)) ELSE s

RECURSIVE RStrip(_)
RStrip(s) == IF s # << >> /\ s[Len(s)] = " " THEN RStrip(SubSeq(s, 1, Len(s) - 1)) ELSE s

Strip(s) == RStrip(LStrip(s))

\* str.split(','): the pieces between commas, empty pieces kept; "" gives [""].
RECURSIVE SplitFrom(_, _)
SplitFrom(s, cur) ==
    IF s = << >> THEN <<cur>>
    ELSE IF Head(s) = "," THEN <<cur>> \o SplitFrom(Tail(s), << >>)
    ELSE SplitFrom(Tail(s), Append(cur, Head(s)))

Split(s) == SplitFrom(s, << >>)

\* "".join(list): the separator forgotten.
RECURSIVE JoinNoComma(_)
JoinNoComma(l) == IF l = << >> THEN << >> ELSE l[1] \o JoinNoComma(Tail(l))

\* ",".join(list)
RECURSIVE Join(_)
Join(l) ==
    IF l = << >> THEN << >>
    ELSE IF Len(l) = 1 THEN l[1]
    ELSE l[1] \o <<",">> \o Join(Tail(l))

RECURSIVE FilterNonBlank(_)
FilterNonBlank(l) ==
    IF l = << >> THEN << >>
    ELSE IF Strip(Head(l)) # << >> THEN <<Head(l)>> \o FilterNonBlank(Tail(l))
    ELSE FilterNonBlank(Tail(l))

\* [t.strip().upper() for t in s.split(',') if t.strip()]
ParseTickers(s) ==
    LET kept == FilterNonBlank(Split(s))
    IN  [i \in 1..Len(kept) |-> Upper(Strip(kept[i]))]

(***************************************************************************)
(* datetime: the proleptic Gregorian calendar, strftime and strptime        *)
(***************************************************************************)

Null == "null"

IsLeap(y) == y % 4 = 0 /\ (y % 100 # 0 \/ y % 400 = 0)

DaysInMonth(y, m) ==
    IF m = 2 THEN (IF IsLeap(y) THEN 29 ELSE 28)
    ELSE IF m \in {4, 6, 9, 11} THEN 30 ELSE 31

\* days before January 1st of year y
DaysBeforeYear(y) ==
    LET p == y - 1 IN p * 365 + p \div 4 - p \div 100 + p \div 400

RECURSIVE DaysBeforeMonth(_, _)
DaysBeforeMonth(y, m) ==
    IF m = 1 THEN 0 ELSE DaysBeforeMonth(y, m - 1) + DaysInMonth(y, m - 1)

\* datetime.toordinal(): January 1st of year 1 is day 1.
ToOrdinal(y, m, d) == DaysBeforeYear(y) + DaysBeforeMonth(y, m) + d

SecondsPerDay == 24 * 60 * 60

\* The datetime whose ordinal day is n and whose second of the day is s.
FromOrdinal(n, s) ==
    LET y == CHOOSE yy \in (n \div 366)..(n \div 365 + 1) :
                 DaysBeforeYear(yy) < n /\ n <= DaysBeforeYear(yy + 1)
        doy == n - DaysBeforeYear(y)
        m == CHOOSE mm \in 1..12 :
                 DaysBeforeMonth(y, mm) < doy /\ doy <= DaysBeforeMonth(y, mm) + DaysInMonth(y, mm)
    IN  [year |-> y, month |-> m, day |-> doy - DaysBeforeMonth(y, m),
         hour |-> s \div 3600, minute |-> (s % 3600) \div 60, second |-> s % 60]

SecondOfDay(dt) == dt.hour * 3600 + dt.minute * 60 + dt.second

\* (a - b).days: timedelta normalises to 0 <= seconds < 86400, so days is the floor.
DeltaDays(a, b) ==
    (ToOrdinal(a.year, a.month, a.day) - ToOrdinal(b.year, b.month, b.day))
        + ((SecondOfDay(a) - SecondOfDay(b)) \div SecondsPerDay)

\* The decimal digits of n, zero-padded on the left to at least w characters.
RECURSIVE Pad(_, _)
Pad(n, w) ==
    IF w <= 1 /\ n < 10 THEN <<DigitChars[n + 1]>>
    ELSE Pad(n \div 10, w - 1) \o <<DigitChars[(n % 10) + 1]>>

\* dt.strftime("%Y%m%d-%H%M"): the seconds are dropped.
Strftime(dt) ==
    Pad(dt.year, 4) \o Pad(dt.month, 2) \o Pad(dt.day, 2) \o <<"-">>
        \o Pad(dt.hour, 2) \o Pad(dt.minute, 2)

RECURSIVE Number(_)
Number(s) == IF s = << >> THEN 0 ELSE Number(SubSeq(s, 1, Len(s) - 1)) * 10 + DigitVal(s[Len(s)])

AllDigits(s) == \A i \in 1..Len(s) : IsDigit(s[i])

\* A field of strptime's regular expression at position i of s, taking k characters:
\* the value it reads, or -1 when that alternative does not match there.
\*   %m  1[0-2]|0[1-9]|[1-9]          %d  3[0-1]|[1-2]\d|0[1-9]|[1-9]| [1-9]
\*   %H  2[0-3]|[0-1]\d|\d            %M  [0-5]\d|\d
\* (the day's last alternative, a space and a digit, can only match where none of
\* the day's other alternatives does, so its place in the order does not matter).
FieldValue(t, k, lo, hi, oneMin, spaceOk) ==
    IF spaceOk /\ k = 2 /\ t[1] = " " /\ IsDigit(t[2]) /\ DigitVal(t[2]) >= 1
        THEN DigitVal(t[2])
    ELSE IF ~AllDigits(t) THEN -1
    ELSE IF k = 2 THEN (IF Number(t) >= lo /\ Number(t) <= hi THEN Number(t) ELSE -1)
    ELSE (IF Number(t) >= oneMin THEN Number(t) ELSE -1)

FieldAt(s, i, k, lo, hi, oneMin, spaceOk) ==
    IF i + k - 1 > Len(s) THEN -1
    ELSE FieldValue(Slice(s, i, i + k - 1), k, lo, hi, oneMin, spaceOk)

\* The widths (month, day, hour) in the order the regular expression tries them:
\* the two-character alternatives of a field come before its one-character one.
FieldWidths ==
    << <<2, 2, 2>>, <<2, 2, 1>>, <<2, 1, 2>>, <<2, 1, 1>>,
       <<1, 2, 2>>, <<1, 2, 1>>, <<1, 1, 2>>, <<1, 1, 1>> >>

\* One way of matching "%Y%m%d-%H%M" against s: whether it matches, the fields read
\* and where the match ends.
MatchFields(s, ih, iM, mo, dy, hr, m2, m1) ==
    IF Len(s) < 4 \/ ~AllDigits(Slice(s, 1, 4)) THEN [ok |-> FALSE]
    ELSE IF mo = -1 \/ dy = -1 \/ hr = -1 THEN [ok |-> FALSE]
    ELSE IF ih - 1 > Len(s) \/ s[ih - 1] # "-" THEN [ok |-> FALSE]
    ELSE IF m2 # -1 THEN
        [ok |-> TRUE, year |-> Number(Slice(s, 1, 4)), month |-> mo, day |-> dy,
         hour |-> hr, minute |-> m2, end |-> iM + 1]
    ELSE IF m1 # -1 THEN
        [ok |-> TRUE, year |-> Number(Slice(s, 1, 4)), month |-> mo, day |-> dy,
         hour |-> hr, minute |-> m1, end |-> iM]
    ELSE [ok |-> FALSE]

\* The fields start at im (month), id (day), ih (hour) and iM (minute); the minute is
\* tried with two characters, then with one.
MatchFrom(s, w, im, id, ih, iM) ==
    MatchFields(s, ih, iM,
                FieldAt(s, im, w[1], 1, 12, 1, FALSE),
                FieldAt(s, id, w[2], 1, 31, 1, TRUE),
                FieldAt(s, ih, w[3], 0, 23, 0, FALSE),
                FieldAt(s, iM, 2, 0, 59, 0, FALSE),
                FieldAt(s, iM, 1, 0, 59, 0, FALSE))

MatchWith(s, w) == MatchFrom(s, w, 5, 5 + w[1], 5 + w[1] + w[2] + 1, 5 + w[1] + w[2] + 1 + w[3])

\* The datetime of a match f of the string s, or the ValueError.
DateOf(s, f) ==
    IF f.end # Len(s) THEN [ok |-> FALSE]
    ELSE IF f.year < 1 \/ f.day > DaysInMonth(f.year, f.month) THEN [ok |-> FALSE]
    ELSE [ok |-> TRUE, year |-> f.year, month |-> f.month, day |-> f.day,
          hour |-> f.hour, minute |-> f.minute, second |-> 0]

\* The alternatives are tried in order from the k-th on; the first that matches decides.
RECURSIVE FirstMatchFrom(_, _)
TryMatch(s, k, f) == IF f.ok THEN DateOf(s, f) ELSE FirstMatchFrom(s, k + 1)

FirstMatchFrom(s, k) ==
    IF k > Len(FieldWidths) THEN [ok |-> FALSE]
    ELSE TryMatch(s, k, MatchWith(s, FieldWidths[k]))

\* datetime.strptime(s, "%Y%m%d-%H%M"): the first match of the regular expression must
\* end at the end of s, and the fields must name a date; ok is FALSE where strptime
\* raises ValueError.
Strptime(s) == FirstMatchFrom(s, 1)

(***************************************************************************)
(* Dictionaries, JSON snapshots and data frames                            *)
(***************************************************************************)

\* {}
EmptyDict == [k \in {} |-> k]

\* d[k] = v on a dict
DictSet(d, k, v) == [x \in (DOMAIN d) \cup {k} |-> IF x = k THEN v ELSE d[x]]

\* Tickers, as the strings they are.
TA == <<"A">>

TB == <<"B">>

TC == <<"C">>

\* "snapshot_" and ".json"
SnapshotPrefix == <<"s", "n", "a", "p", "s", "h", "o", "t", "_">>

JsonSuffix == <<".", "j", "s", "o", "n">>

\* None, where a file name is expected (no file name is empty).
NoName == << >>

\* pd.DataFrame.from_dict(data, orient='index') on a dict of dicts: the columns are
\* the keys that occur in some inner dict, and the index holds the outer keys whose
\* inner dict has at least one key (an outer key with an empty dict contributes no
\* cell, hence no row).  A cell whose inner dict lacks the column is NaN.
FromDict(data) ==
    LET idx == {t \in DOMAIN data : DOMAIN data[t] # {}}
    IN  [index |-> idx,
         columns |-> UNION {DOMAIN data[t] : t \in idx},
         rows |-> [t \in idx |-> data[t]]]

\* pd.DataFrame()
EmptyFrame == FromDict(EmptyDict)

\* pd.isnull(df.loc[t].get(col)): the column is missing, the cell is NaN, or the cell
\* is None (JSON null; the model has null only in the text column "sector").
CellIsNull(df, t, col) ==
    \/ col \notin DOMAIN df.rows[t]
    \/ (col = "sector" /\ df.rows[t][col] = Null)

\* [f for f in os.listdir(folder) if f.startswith('snapshot_') and f.endswith('.json')]
SnapshotFiles(folder) ==
    {f \in DOMAIN folder : StartsWith(f, SnapshotPrefix) /\ EndsWith(f, JsonSuffix)}

\* datetime.datetime.utcnow() on a clock that counts days (ordinals) and seconds.
UtcNow(clk) == FromOrdinal(clk.ord, clk.sec)

\* latest_snapshot.replace("snapshot_", "").replace(".json", "")
TimestampStr(name) == RemoveAll(RemoveAll(name, SnapshotPrefix), JsonSuffix)

\* (now - snapshot_time).days > 4
StaleDays == 4

\* The staleness test with the boundary day counted as stale.
IsStaleFromDayFour(nowdt, snapdt) == DeltaDays(nowdt, snapdt) >= StaleDays

IsStale(nowdt, snapdt) == DeltaDays(nowdt, snapdt) > StaleDays

\* The end of is_snapshot_outdated, from the parsed time of the latest snapshot.
StaleAnswer(latest_snapshot, snapshot_time, nowdt) ==
    IF ~snapshot_time.ok THEN [outdated |-> TRUE, latest |-> latest_snapshot]
    ELSE [outdated |-> IsStale(nowdt, snapshot_time), latest |-> latest_snapshot]

LatestAnswer(latest_snapshot, clk) ==
    StaleAnswer(latest_snapshot, Strptime(TimestampStr(latest_snapshot)), UtcNow(clk))

SnapshotAnswer(snapshot_files, clk) ==
    IF snapshot_files = {} THEN [outdated |-> TRUE, latest |-> NoName]
    ELSE LatestAnswer(SortReverseFirst(snapshot_files), clk)

\* is_snapshot_outdated(): (outdated, latest_snapshot_filename or None)
is_snapshot_outdated(folder, clk) == SnapshotAnswer(SnapshotFiles(folder), clk)

LatestFrame(folder, snapshot_files) ==
    IF snapshot_files = {} THEN EmptyFrame
    ELSE FromDict(folder[SortReverseFirst(snapshot_files)])

\* load_snapshot_df(): the most recent snapshot as a data frame
load_snapshot_df(folder) == LatestFrame(folder, SnapshotFiles(folder))

(***************************************************************************)
(* The chart generators                                                    *)
(***************************************************************************)

NotFoundMsg(t) == [msg |-> "not found in snapshot data", ticker |-> t, category |-> "error"]

MissingSectorMsg(t) == [msg |-> "is missing sector info", ticker |-> t, category |-> "error"]

NoChart == [kind |-> "None"]

\* The first loop without its message for a ticker that has no sector.
RECURSIVE SectorFlashesUnknownOnly(_, _)
SectorFlashesUnknownOnly(tickers, df) ==
    IF tickers = << >> THEN << >>
    ELSE (IF Head(tickers) \notin df.index THEN <<NotFoundMsg(Head(tickers))>> ELSE << >>)
            \o SectorFlashesUnknownOnly(Tail(tickers), df)

\* The first loop of a sector chart: one flash per ticker that is unknown or has no sector.
RECURSIVE SectorFlashes(_, _)
SectorFlashes(tickers, df) ==
    IF tickers = << >> THEN << >>
    ELSE LET t == Head(tickers)
             rest == SectorFlashes(Tail(tickers), df)
         IN  IF t \notin df.index THEN <<NotFoundMsg(t)>> \o rest
             ELSE IF CellIsNull(df, t, "sector") THEN <<MissingSectorMsg(t)>> \o rest
             ELSE rest

\* The sectors that loop collects.
SectorsOf(tickers, df) ==
    {df.rows[tickers[i]]["sector"] :
        i \in {j \in 1..Len(tickers) :
                  tickers[j] \in df.index /\ ~CellIsNull(df, tickers[j], "sector")}}

\* The body shared by the three sector charts, for the chart's two axis columns.
\* Selecting a column that no row of the snapshot has raises KeyError.
SectorChart(tickers, df, xcol, ycol, title) ==
    LET sectors == SectorsOf(tickers, df)
        need == {xcol, ycol, "marketCap"}
        filtered == {t \in df.index :
                        /\ ~CellIsNull(df, t, "sector")
                        /\ df.rows[t]["sector"] \in sectors
                        /\ \A c \in need : ~CellIsNull(df, t, c)}
        asked == {tickers[i] : i \in 1..Len(tickers)}
    IN  [flashes |-> SectorFlashes(tickers, df),
         graph |-> IF sectors = {} THEN NoChart
                   ELSE IF ~(need \subseteq df.columns) THEN [kind |-> "KeyError"]
                   ELSE [kind |-> "chart", title |-> title, sectors |-> sectors,
                         sector_trace |-> filtered \ asked,
                         user_trace |-> filtered \cap asked]]

generate_pe_scatter_chart(tickers, df) ==
    SectorChart(tickers, df, "trailingPE", "regularMarketPrice", "P/E Scatter")

generate_trailingPE_vs_earningsGrowth_chart(tickers, df) ==
    SectorChart(tickers, df, "trailingPE", "earningsGrowth", "Trailing P/E vs. Earnings Growth")

generate_priceToBook_vs_ROE_chart(tickers, df) ==
    SectorChart(tickers, df, "priceToBook", "returnOnEquity", "Price-to-Book vs. ROE")

DefaultBasePrice == 100

RECURSIVE SharpeFlashes(_, _)
SharpeFlashes(tickers, df) ==
    IF tickers = << >> THEN << >>
    ELSE (IF Head(tickers) \notin df.index THEN <<NotFoundMsg(Head(tickers))>> ELSE << >>)
            \o SharpeFlashes(Tail(tickers), df)

\* generate_sharpe_chart: one trace per ticker; the trace's 30 points are
\* base_price * (1 + 0.01 * i), so the trace is given by its name and base price.
generate_sharpe_chart(tickers, df) ==
    [flashes |-> SharpeFlashes(tickers, df),
     graph |-> [kind |-> "chart", title |-> "Portfolio Simulation: Sharpe Ratio Analysis",
                data |-> [i \in 1..Len(tickers) |->
                    [name |-> tickers[i],
                     base_price |->
                        IF tickers[i] \in df.index
                              /\ ~CellIsNull(df, tickers[i], "regularMarketPrice")
                        THEN df.rows[tickers[i]]["regularMarketPrice"]
                        ELSE DefaultBasePrice]]]]

\* The view dispatch of index(): an unknown view, or no tickers, gives no chart.
GenerateChart(view, tickers, df) ==
    IF tickers = << >> THEN [flashes |-> << >>, graph |-> NoChart]
    ELSE IF view = "sharpe" THEN generate_sharpe_chart(tickers, df)
    ELSE IF view = "pe" THEN generate_pe_scatter_chart(tickers, df)
    ELSE IF view = "pe_growth" THEN generate_trailingPE_vs_earningsGrowth_chart(tickers, df)
    ELSE IF view = "pb_roe" THEN generate_priceToBook_vs_ROE_chart(tickers, df)
    ELSE [flashes |-> << >>, graph |-> NoChart]

(***************************************************************************)
(* State                                                                   *)
(***************************************************************************)

\* The request threads that can run fetch_data at the same time.
Threads == {"t1", "t2"}

VARIABLES
    clock,              \* the UTC clock: [ord: day ordinal, sec: second of the day]
    files,              \* static/stock_snapshots: file name -> the dict stored as JSON
    stock_info_cache,   \* the global dict, ticker -> info
    remote_calls,       \* how many yfinance lookups (ticker.info) have been made
    iter_order,         \* the order in which "for ticker in all_tickers" yields the set
    pc,                 \* per thread: where its fetch_data request stands
    todo,               \* per thread: the tickers its loop has not reached yet
    cur,                \* per thread: the loop variable ticker
    info,               \* per thread: the local variable info
    response,           \* the response to the latest request, once it has one
    hist,               \* per thread: what its current (or last) fetch_data run has seen
    lastOp,             \* the step that was taken last
    lastWrite,          \* the snapshot that was written last
    seq,                \* no two fetch_data runs have overlapped so far
    runs,               \* fetch_data requests started
    ticks               \* clock steps taken

vars == <<clock, files, stock_info_cache, remote_calls, iter_order, pc, todo, cur, info,
          response, hist, lastOp, lastWrite, seq, runs, ticks>>

(***************************************************************************)
(* Bounds and inputs                                                       *)
(***************************************************************************)

\* fetch_data requests in a run of the model
MaxRuns == 2

\* clock steps in a run of the model
MaxTicks == 2

\* characters in a tickers field typed by the user
MaxLen == 5

\* tickers in a list handed to a chart generator
MaxList == 3

\* The clock can step by half a minute or by two and a half days.
TickSteps == {30, 60 * 60 * 60}

\* index_data: the CSV files loaded at startup, each with its columns and (where it
\* has one) its Symbol column after dropna().unique().
index_data ==
    [csv \in {"SP500_Index.csv", "Russell_1000_Index.csv", "notes.csv"} |->
        CASE csv = "SP500_Index.csv" ->
                [columns |-> {"Symbol", "Security"}, Symbol |-> {<<"A">>, <<"b", " ">>}]
          [] csv = "Russell_1000_Index.csv" ->
                [columns |-> {"Company", "Symbol"}, Symbol |-> {<<" ", "a">>, <<"B">>}]
          [] OTHER -> [columns |-> {"Name"}, Symbol |-> {}]]

\* What yf.Ticker(symbol).info can give: a dict, or an exception.
RemoteInfos ==
    { [regularMarketPrice |-> 50],
      [sector |-> "Tech", regularMarketPrice |-> 50, trailingPE |-> 20, marketCap |-> 1000] }

RemoteOutcomes == {[raised |-> TRUE]} \cup {[raised |-> FALSE, info |-> i] : i \in RemoteInfos}

(***************************************************************************)
(* Requests, routing and redirects                                         *)
(***************************************************************************)

\* request.form.get(key, default) and request.args.get(key, default)
Get(d, key, default) == IF key \in DOMAIN d THEN d[key] ELSE default

\* url_for(...) writes each argument into the query string percent-encoded, with a
\* space as "+"; letters and digits stay.
RECURSIVE UrlQuote(_)
UrlQuote(s) ==
    IF s = << >> THEN << >>
    ELSE (CASE Head(s) = " " -> <<"+">>
            [] Head(s) = "," -> <<"%", "2", "C">>
            [] Head(s) = "+" -> <<"%", "2", "B">>
            [] Head(s) = "%" -> <<"%", "2", "5">>
            [] OTHER -> <<Head(s)>>) \o UrlQuote(Tail(s))

\* request.args decodes the query string again.
RECURSIVE UrlUnquote(_)
UrlUnquote(s) ==
    IF s = << >> THEN << >>
    ELSE IF Head(s) = "+" THEN <<" ">> \o UrlUnquote(Tail(s))
    ELSE IF Head(s) = "%" /\ Len(s) >= 3 THEN
        (CASE SubSeq(s, 2, 3) = <<"2", "C">> -> <<",">>
           [] SubSeq(s, 2, 3) = <<"2", "B">> -> <<"+">>
           [] SubSeq(s, 2, 3) = <<"2", "5">> -> <<"%">>
           [] OTHER -> <<"%">> \o SubSeq(s, 2, 3)) \o UrlUnquote(SubSeq(s, 4, Len(s)))
    ELSE <<Head(s)>> \o UrlUnquote(Tail(s))

\* The query string of a URL, as the encoded value of each argument.
UrlFor(args) == [k \in DOMAIN args |-> UrlQuote(args[k])]

RequestArgs(query) == [k \in DOMAIN query |-> UrlUnquote(query[k])]

\* @app.route: the methods each endpoint accepts.
RouteMethods(endpoint) ==
    IF endpoint = "index" THEN {"GET", "POST"}
    ELSE IF endpoint = "fetch_data" THEN {"POST"}
    ELSE {}

\* redirect(location): Flask's default status code.
RedirectCode == 302

\* A client that follows a redirect repeats the request with GET after a 301, 302 or
\* 303, and with the original method only after a 307 or 308.
FollowMethod(code, method) == IF code \in {301, 302, 303} THEN "GET" ELSE method

NoResponse == [status |-> 0]

Redirect(endpoint, args, flashes) ==
    [status |-> RedirectCode, endpoint |-> endpoint, query |-> UrlFor(args),
     flashes |-> flashes]

MethodNotAllowed == [status |-> 405]

EmptyTickersMsg ==
    [msg |-> "Please enter at least one ticker symbol (comma-separated).",
     ticker |-> << >>, category |-> "error"]

UpdatedMsg == [msg |-> "Data updated successfully.", ticker |-> << >>, category |-> "success"]

\* index(), POST branch: the response.
IndexPostResponse(form) ==
    IF Get(form, "fetch_data", << >>) # << >> THEN Redirect("fetch_data", EmptyDict, << >>)
    ELSE LET tickers == ParseTickers(Get(form, "tickers", << >>))
         IN  IF tickers = << >> THEN Redirect("index", EmptyDict, <<EmptyTickersMsg>>)
             ELSE Redirect("index",
                           [k \in {"tickers", "compare_index", "view"} |->
                               CASE k = "tickers" -> Join(tickers)
                                 [] k = "compare_index" -> Get(form, "compare_index", << >>)
                                 [] OTHER -> Get(form, "view", <<"sharpe">>)],
                           << >>)

\* The view field, which the form and the query carry as a string; the model writes
\* a view name as a string of one token.
ViewName(v) ==
    IF v = <<"sharpe">> THEN "sharpe"
    ELSE IF v = <<"pe">> THEN "pe"
    ELSE IF v = <<"pe_growth">> THEN "pe_growth"
    ELSE IF v = <<"pb_roe">> THEN "pb_roe"
    ELSE "other"

\* index(), GET branch: the response (the values handed to the template), for the
\* folder and the clock as they are.  A chart generator's KeyError is a 500.
RenderIndex(args, tickers, view, so, chart) ==
    IF chart.graph.kind = "KeyError"
    THEN [status |-> 500, passed |-> tickers, flashes |-> chart.flashes]
    ELSE [status |-> 200,
          passed |-> tickers,
          tickers |-> Join(tickers),
          compare_index |-> Get(args, "compare_index", << >>),
          view |-> view,
          graphJSON |-> chart.graph,
          index_list |-> DOMAIN index_data,
          snapshot_outdated |-> so.outdated,
          latest_snapshot |-> so.latest,
          flashes |-> chart.flashes]

IndexGetWith(args, tickers, view, folder, clk) ==
    RenderIndex(args, tickers, view, is_snapshot_outdated(folder, clk),
                GenerateChart(ViewName(view), tickers, load_snapshot_df(folder)))

IndexGetResponse(args, folder, clk) ==
    IndexGetWith(args, ParseTickers(Get(args, "tickers", << >>)),
                 Get(args, "view", <<"sharpe">>), folder, clk)

(***************************************************************************)
(* fetch_data and get_stock_info                                           *)
(***************************************************************************)

\* all_tickers: the Symbol values of every CSV that has the column, stripped and
\* upper-cased, as a set.
AllTickers ==
    UNION {{Upper(Strip(t)) : t \in index_data[csv].Symbol} :
              csv \in {c \in DOMAIN index_data : "Symbol" \in index_data[c].columns}}

\* The sequences that enumerate a set once each.
Orders(S) ==
    {o \in [1..Cardinality(S) -> S] : \A t \in S : \E i \in 1..Cardinality(S) : o[i] = t}

\* symbol = symbol.upper().strip()
NormSymbol(symbol) == Strip(Upper(symbol))

\* f"snapshot_{now}.json" with now = utcnow().strftime("%Y%m%d-%H%M")
SnapshotName(clk) == SnapshotPrefix \o Strftime(UtcNow(clk)) \o JsonSuffix

Active(p) == pc[p] # "idle"

\* The thread is inside its "for ticker in all_tickers" loop.
InLoop(p) == pc[p] \in {"gsi_fetch", "store"} \/ (pc[p] = "loop" /\ todo[p] # << >>)

\* The tickers whose info, as this run got it, would pass "if info and 'sector' in info".
WithSector(h) == {t \in DOMAIN h.got : "sector" \in DOMAIN h.got[t]}

FreshHist ==
    [via |-> "none", overlap |-> FALSE, got |-> EmptyDict, raised |-> {}, hits |-> {}, clobbered |-> {},
     inloop |-> {}, raced |-> FALSE, wrote |-> FALSE, name |-> NoName, data |-> EmptyDict]

\* What a thread's history records when another thread rebinds stock_info_cache.
Clobber(q) ==
    IF Active(q)
    THEN [hist[q] EXCEPT !.overlap = TRUE,
                         !.clobbered = @ \cup WithSector(hist[q]),
                         !.inloop = IF InLoop(q) THEN @ \cup WithSector(hist[q]) ELSE @,
                         !.raced = TRUE]
    ELSE hist[q]

\* What a thread's history records when another thread stores into stock_info_cache.
Touch(q) == IF Active(q) THEN [hist[q] EXCEPT !.raced = TRUE] ELSE hist[q]

\* stock_info_cache = {}
Rebind == EmptyDict

\* A cache of one entry: storing evicts what was there.
StoreEvicting(cache, symbol, inf) == DictSet(EmptyDict, symbol, inf)

\* A store that is forgotten.
StoreDropping(cache, symbol, inf) == cache

\* stock_info_cache[symbol] = info
Store(cache, symbol, inf) == DictSet(cache, symbol, inf)

\* fetch_data(), from the request's arrival, which has no response yet, to
\* "stock_info_cache = {}".
BeginFetch(p, via) ==
    /\ pc[p] = "idle"
    /\ runs < MaxRuns
    /\ runs' = runs + 1
    /\ stock_info_cache' = Rebind
    /\ pc' = [pc EXCEPT ![p] = "loop"]
    /\ todo' = [todo EXCEPT ![p] = iter_order]
    /\ cur' = [cur EXCEPT ![p] = << >>]
    /\ info' = [info EXCEPT ![p] = EmptyDict]
    /\ hist' = [q \in Threads |->
                  IF q = p
                  THEN [FreshHist EXCEPT !.via = via,
                                         !.overlap = \E r \in Threads \ {p} : Active(r)]
                  ELSE Clobber(q)]
    /\ seq' = (seq /\ ~\E r \in Threads \ {p} : Active(r))
    /\ response' = NoResponse
    /\ UNCHANGED <<clock, files, remote_calls, iter_order, lastWrite, ticks>>

\* A direct POST to /fetch_data.
PostFetchData(p) ==
    /\ "POST" \in RouteMethods("fetch_data")
    /\ BeginFetch(p, "post")
    /\ lastOp' = [op |-> "begin", thread |-> p, via |-> "post"]

\* The loop takes its next ticker and get_stock_info looks it up in the cache:
\* a hit returns the cached info, a miss goes on to the remote lookup.
GsiCheck(p) ==
    /\ pc[p] = "loop"
    /\ todo[p] # << >>
    /\ LET ticker == Head(todo[p])
           symbol == NormSymbol(ticker)
           hit == symbol \in DOMAIN stock_info_cache
       IN  /\ cur' = [cur EXCEPT ![p] = ticker]
           /\ todo' = [todo EXCEPT ![p] = Tail(todo[p])]
           /\ info' = [info EXCEPT ![p] = IF hit THEN stock_info_cache[symbol] ELSE EmptyDict]
           /\ pc' = [pc EXCEPT ![p] = IF hit THEN "store" ELSE "gsi_fetch"]
           /\ hist' = [hist EXCEPT ![p].raced = FALSE,
                                   ![p].hits = IF hit THEN @ \cup {ticker} ELSE @,
                                   ![p].got = IF hit THEN DictSet(@, ticker, stock_info_cache[symbol])
                                              ELSE @]
           /\ lastOp' = [op |-> "gsi_check", thread |-> p, hit |-> hit]
    /\ UNCHANGED <<clock, files, stock_info_cache, remote_calls, iter_order, response,
                   lastWrite, seq, runs, ticks>>

\* get_stock_info after a miss: the remote lookup gives an info, which is cached and
\* returned, or raises, and {} is returned.
GsiFetch(p) ==
    /\ pc[p] = "gsi_fetch"
    /\ \E out \in RemoteOutcomes :
          LET symbol == NormSymbol(cur[p])
          IN  /\ remote_calls' = remote_calls + 1
              /\ stock_info_cache' =
                    IF out.raised THEN stock_info_cache
                    ELSE Store(stock_info_cache, symbol, out.info)
              /\ info' = [info EXCEPT ![p] = IF out.raised THEN EmptyDict ELSE out.info]
              /\ hist' = [q \in Threads |->
                            IF q = p
                            THEN [hist[p] EXCEPT
                                     !.got = DictSet(@, cur[p],
                                                IF out.raised THEN EmptyDict ELSE out.info),
                                     !.raised = IF out.raised THEN @ \cup {cur[p]} ELSE @]
                            ELSE IF out.raised THEN hist[q] ELSE Touch(q)]
              /\ lastOp' = [op |-> "gsi_fetch", thread |-> p, raised |-> out.raised]
    /\ pc' = [pc EXCEPT ![p] = "store"]
    /\ UNCHANGED <<clock, files, iter_order, todo, cur, response, lastWrite, seq,
                   runs, ticks>>

\* The loop storing whatever get_stock_info returned.
KeepsAnyInfo(inf) == TRUE

\* if info and "sector" in info: stock_info_cache[ticker] = info
KeepsInfo(inf) == inf # EmptyDict /\ "sector" \in DOMAIN inf

FetchStore(p) ==
    /\ pc[p] = "store"
    /\ stock_info_cache' =
          IF KeepsInfo(info[p]) THEN Store(stock_info_cache, cur[p], info[p])
          ELSE stock_info_cache
    /\ hist' = [q \in Threads |->
                  IF q # p /\ KeepsInfo(info[p]) THEN Touch(q) ELSE hist[q]]
    /\ pc' = [pc EXCEPT ![p] = "loop"]
    /\ lastOp' = [op |-> "store", thread |-> p, kept |-> KeepsInfo(info[p])]
    /\ UNCHANGED <<clock, files, remote_calls, iter_order, todo, cur, info, response,
                   lastWrite, seq, runs, ticks>>

\* After the loop: the snapshot file is written from the global stock_info_cache as it
\* is now, the success message is flashed and the client is redirected to index.
FetchWrite(p) ==
    /\ pc[p] = "loop"
    /\ todo[p] = << >>
    /\ LET snapshot_filename == SnapshotName(clock)
       IN  /\ files' = DictSet(files, snapshot_filename, stock_info_cache)
           /\ hist' = [hist EXCEPT ![p].wrote = TRUE, ![p].name = snapshot_filename,
                                   ![p].data = stock_info_cache]
           /\ lastWrite' = [done |-> TRUE, name |-> snapshot_filename,
                            data |-> stock_info_cache, at |-> clock]
           /\ lastOp' = [op |-> "write", thread |-> p,
                         existed |-> snapshot_filename \in DOMAIN files]
    /\ response' = Redirect("index", EmptyDict, <<UpdatedMsg>>)
    /\ pc' = [pc EXCEPT ![p] = "idle"]
    /\ UNCHANGED <<clock, stock_info_cache, remote_calls, iter_order, todo, cur, info, seq, runs, ticks>>

(***************************************************************************)
(* index                                                                   *)
(***************************************************************************)

\* A GET of / that renders from live data when the snapshot is outdated: it looks the
\* first requested ticker up remotely and caches the info.
IndexGetLive(args, via) ==
    /\ response' = IndexGetResponse(args, files, clock)
    /\ lastOp' = [op |-> "index_get", thread |-> "none", via |-> via,
                  view |-> Get(args, "view", <<"sharpe">>)]
    /\ LET tickers == ParseTickers(Get(args, "tickers", << >>))
           live == tickers # << >> /\ is_snapshot_outdated(files, clock).outdated
       IN  /\ remote_calls' = IF live /\ remote_calls < 2 * MaxRuns THEN remote_calls + 1
                              ELSE remote_calls
           /\ stock_info_cache' =
                 IF live THEN DictSet(stock_info_cache, tickers[1], [regularMarketPrice |-> 50])
                 ELSE stock_info_cache
    /\ UNCHANGED <<clock, files, iter_order, pc, todo, cur, info, hist, lastWrite, seq, runs,
                   ticks>>

\* A GET of / : the page is rendered from the snapshot folder; nothing is written.
IndexGet(args, via) ==
    /\ response' = IndexGetResponse(args, files, clock)
    /\ lastOp' = [op |-> "index_get", thread |-> "none", via |-> via,
                  view |-> Get(args, "view", <<"sharpe">>)]
    /\ UNCHANGED <<clock, files, stock_info_cache, remote_calls, iter_order, pc, todo, cur,
                   info, hist, lastWrite, seq, runs, ticks>>

\* A POST to / : always answered by a redirect.
IndexPost(form) ==
    /\ response' = IndexPostResponse(form)
    /\ lastOp' = [op |-> "index_post", thread |-> "none",
                  button |-> Get(form, "fetch_data", << >>) # << >>,
                  raw |-> Get(form, "tickers", << >>),
                  tickers |-> ParseTickers(Get(form, "tickers", << >>))]
    /\ UNCHANGED <<clock, files, stock_info_cache, remote_calls, iter_order, pc, todo, cur,
                   info, hist, lastWrite, seq, runs, ticks>>

\* The client follows the redirect it was sent: to index with the query of the
\* Location, or to fetch_data, where the method decides whether the handler runs.
FollowToIndex ==
    /\ response.status = RedirectCode
    /\ response.endpoint = "index"
    /\ FollowMethod(response.status, "POST") \in RouteMethods("index")
    /\ IndexGet(RequestArgs(response.query), "redirect")

FollowToFetchData(p) ==
    /\ response.status = RedirectCode
    /\ response.endpoint = "fetch_data"
    /\ IF FollowMethod(response.status, "POST") \in RouteMethods("fetch_data")
       THEN /\ BeginFetch(p, "redirect")
            /\ lastOp' = [op |-> "begin", thread |-> p, via |-> "redirect"]
       ELSE /\ response' = MethodNotAllowed
            /\ lastOp' = [op |-> "refused", thread |-> p, via |-> "redirect"]
            /\ UNCHANGED <<clock, files, stock_info_cache, remote_calls, iter_order, pc,
                           todo, cur, info, hist, lastWrite, seq, runs, ticks>>

\* Time passes.
Tick(d) ==
    /\ ticks < MaxTicks
    /\ ticks' = ticks + 1
    /\ clock' = [ord |-> clock.ord + (clock.sec + d) \div SecondsPerDay,
                 sec |-> (clock.sec + d) % SecondsPerDay]
    /\ lastOp' = [op |-> "tick", thread |-> "none"]
    /\ UNCHANGED <<files, stock_info_cache, remote_calls, iter_order, pc, todo, cur, info,
                   response, hist, lastWrite, seq, runs>>

(***************************************************************************)
(* The server under concurrent requests                                    *)
(***************************************************************************)

\* 2024-12-29 23:59:00 UTC
StartClock == [ord |-> ToOrdinal(2024, 12, 29), sec |-> 23 * 3600 + 59 * 60]

InitServer ==
    /\ stock_info_cache = EmptyDict
    /\ remote_calls = 0
    /\ iter_order \in Orders(AllTickers)
    /\ pc = [p \in Threads |-> "idle"]
    /\ todo = [p \in Threads |-> << >>]
    /\ cur = [p \in Threads |-> << >>]
    /\ info = [p \in Threads |-> EmptyDict]
    /\ response = NoResponse
    /\ hist = [p \in Threads |-> FreshHist]
    /\ lastOp = [op |-> "start", thread |-> "none"]
    /\ lastWrite = [done |-> FALSE]
    /\ seq = TRUE
    /\ runs = 0
    /\ ticks = 0

\* The server starts with an empty snapshot folder.
Init ==
    /\ clock = StartClock
    /\ files = EmptyDict
    /\ InitServer

\* The query strings and forms a user sends while fetch_data requests are running.
GetInputs ==
    { EmptyDict,
      [tickers |-> <<"A", ",", "b">>, view |-> <<"pe">>] }

PostInputs ==
    { [fetch_data |-> <<"1">>, tickers |-> <<"A">>, view |-> <<"pe">>],
      [tickers |-> <<" ", "a", ",", "B">>, view |-> <<"pe">>] }

\* One request thread: the server handles one request, index or fetch_data, from start
\* to end before it accepts the next one.  The clock is read by a GET of / and by
\* fetch_data when its loop is over, so time passes between requests and before the
\* snapshot is named.
Worker == "t1"

AtWrite(p) == pc[p] = "loop" /\ todo[p] = << >>

Next ==
    \/ ((~Active(Worker) \/ AtWrite(Worker)) /\ \E d \in TickSteps : Tick(d))
    \/ (~Active(Worker) /\ PostFetchData(Worker))
    \/ GsiCheck(Worker)
    \/ GsiFetch(Worker)
    \/ FetchStore(Worker)
    \/ FetchWrite(Worker)
    \/ (~Active(Worker) /\ \E args \in GetInputs : IndexGet(args, "user"))
    \/ (~Active(Worker) /\ \E form \in PostInputs : IndexPost(form))
    \/ (~Active(Worker) /\ FollowToIndex)
    \/ (~Active(Worker) /\ FollowToFetchData(Worker))

Spec == Init /\ [][Next]_vars

\* Two request threads: fetch_data requests run at the same time, and a thread can be
\* preempted between any two of its steps.
NextConc ==
    \/ \E p \in Threads : PostFetchData(p)
    \/ \E p \in Threads : GsiCheck(p)
    \/ \E p \in Threads : GsiFetch(p)
    \/ \E p \in Threads : FetchStore(p)
    \/ \E p \in Threads : FetchWrite(p)

ConcSpec == Init /\ [][NextConc]_vars

(***************************************************************************)
(* is_snapshot_outdated on any folder and clock                            *)
(***************************************************************************)

Stamp1 == <<"2", "0", "2", "4", "1", "2", "2", "4", "-", "2", "3", "5", "9">>

Stamp2 == <<"2", "0", "2", "4", "1", "2", "2", "5", "-", "0", "0", "0", "0">>

Stamp3 == <<"2", "0", "2", "5", "0", "1", "0", "2", "-", "0", "0", "0", "0">>

\* File names a snapshot folder can hold besides those fetch_data writes: copies,
\* hand-made files, files of other kinds.
FolderNames ==
    { SnapshotPrefix \o Stamp1 \o JsonSuffix,
      SnapshotPrefix \o Stamp2 \o JsonSuffix,
      SnapshotPrefix \o Stamp3 \o JsonSuffix,
      \* snapshot_20241225-0000.json.json
      SnapshotPrefix \o Stamp2 \o JsonSuffix \o JsonSuffix,
      \* snapshot_2024127-1200.json
      SnapshotPrefix \o <<"2", "0", "2", "4", "1", "2", "7", "-", "1", "2", "0", "0">> \o JsonSuffix,
      \* snapshot_20240230-1200.json
      SnapshotPrefix \o <<"2", "0", "2", "4", "0", "2", "3", "0", "-", "1", "2", "0", "0">>
          \o JsonSuffix,
      \* snapshot_x.json and snapshot_.json
      SnapshotPrefix \o <<"x">> \o JsonSuffix,
      SnapshotPrefix \o JsonSuffix,
      \* snapshot_20250102-0000 and x.json
      SnapshotPrefix \o Stamp3,
      <<"x">> \o JsonSuffix }

\* Clocks around the fifth day after 2024-12-25 00:00, and one before it.
FolderClocks ==
    { [ord |-> ToOrdinal(2024, 12, 24), sec |-> 12 * 3600],
      [ord |-> ToOrdinal(2024, 12, 29), sec |-> 23 * 3600],
      [ord |-> ToOrdinal(2024, 12, 29), sec |-> 23 * 3600 + 59 * 60 + 59],
      [ord |-> ToOrdinal(2024, 12, 30), sec |-> 0],
      [ord |-> ToOrdinal(2025, 1, 7), sec |-> 1] }

InitStale ==
    /\ clock \in FolderClocks
    /\ \E S \in SUBSET FolderNames : files = [n \in S |-> EmptyDict]
    /\ InitServer

\* One GET of / without tickers.
NextStale == response = NoResponse /\ IndexGet(EmptyDict, "user")

StaleSpec == InitStale /\ [][NextStale]_vars

(***************************************************************************)
(* The chart generators on any snapshot and ticker list                    *)
(***************************************************************************)

\* The entries a snapshot can hold for a ticker.
ChartInfos ==
    { EmptyDict,
      [regularMarketPrice |-> 50],
      [sector |-> Null, regularMarketPrice |-> 70],
      [sector |-> "Tech"],
      [sector |-> "Tech", regularMarketPrice |-> 50, trailingPE |-> 20, marketCap |-> 1000],
      [sector |-> "Energy", trailingPE |-> 9, earningsGrowth |-> 2, marketCap |-> 500,
       priceToBook |-> 3, returnOnEquity |-> 1] }

\* The snapshots: any entries for A and B, none for C.
ChartSnapshots == UNION {[S -> ChartInfos] : S \in SUBSET {TA, TB}}

\* The ticker lists of at most n tickers.
RECURSIVE Lists(_, _)
Lists(S, n) ==
    IF n = 0 THEN {<< >>}
    ELSE Lists(S, n - 1) \cup {Append(l, t) : l \in {k \in Lists(S, n - 1) : Len(k) = n - 1}, t \in S}

Views == {<<"sharpe">>, <<"pe">>, <<"pe_growth">>, <<"pb_roe">>, <<"bogus">>}

InitCharts ==
    /\ clock = StartClock
    /\ \E d \in ChartSnapshots : files = [n \in {SnapshotName(StartClock)} |-> d]
    /\ InitServer

\* One GET of / with a ticker list and a view.
NextCharts ==
    /\ response = NoResponse
    /\ \E l \in Lists({TA, TB, TC}, MaxList), v \in Views :
          IndexGet([k \in {"tickers", "view"} |-> IF k = "tickers" THEN Join(l) ELSE v], "user")

ChartSpec == InitCharts /\ [][NextCharts]_vars

(***************************************************************************)
(* The tickers form: POST, redirect, GET                                   *)
(***************************************************************************)

FormAlphabet == {"a", "B", " ", ",", "+"}

RECURSIVE Strings(_, _)
Strings(S, n) ==
    IF n = 0 THEN {<< >>}
    ELSE Strings(S, n - 1) \cup {Append(l, c) : l \in {k \in Strings(S, n - 1) : Len(k) = n - 1}, c \in S}

\* The forms: a tickers field, with or without a view and the fetch_data button.
Forms ==
    {[k \in {"tickers"} \cup extra |->
         CASE k = "tickers" -> t [] k = "view" -> <<"pe">> [] OTHER -> <<"1">>] :
       t \in Strings(FormAlphabet, MaxLen), extra \in SUBSET {"view", "fetch_data"}}

\* One POST to /, and the client following the redirect.
NextForm ==
    \/ (response = NoResponse /\ \E form \in Forms : IndexPost(form))
    \/ FollowToIndex
    \/ FollowToFetchData(Worker)

FormSpec == Init /\ [][NextForm]_vars

(***************************************************************************)
(* C1: is_snapshot_outdated                                                *)
(***************************************************************************)

\* The names of the form snapshot_*.json in the folder.
Matching == {n \in DOMAIN files : \E mid \in {Slice(n, 10, Len(n) - 5)} :
                                    Len(n) >= 14 /\ n = SnapshotPrefix \o mid \o JsonSuffix}

GreatestMatching == CHOOSE g \in Matching : \A m \in Matching \ {g} : StrLess(m, g)

\* A name of exactly the form snapshot_YYYYMMDD-HHMM.json that names a minute.
WellFormed(n) ==
    /\ Len(n) = 27
    /\ StartsWith(n, SnapshotPrefix) /\ EndsWith(n, JsonSuffix)
    /\ \A i \in (10..17) \cup (19..22) : IsDigit(n[i])
    /\ n[18] = "-"
    /\ Number(SubSeq(n, 10, 13)) >= 1
    /\ Number(SubSeq(n, 14, 15)) \in 1..12
    /\ Number(SubSeq(n, 16, 17)) \in 1..DaysInMonth(Number(SubSeq(n, 10, 13)), Number(SubSeq(n, 14, 15)))
    /\ Number(SubSeq(n, 19, 20)) \in 0..23
    /\ Number(SubSeq(n, 21, 22)) \in 0..59

\* The minute such a name names, read off its positions.
MinuteOf(n) ==
    [ok |-> TRUE, year |-> Number(SubSeq(n, 10, 13)), month |-> Number(SubSeq(n, 14, 15)),
     day |-> Number(SubSeq(n, 16, 17)), hour |-> Number(SubSeq(n, 19, 20)),
     minute |-> Number(SubSeq(n, 21, 22)), second |-> 0]

\* The seconds from the datetime dt to the clock.
SecondsSince(dt, clk) ==
    (clk.ord - ToOrdinal(dt.year, dt.month, dt.day)) * SecondsPerDay + clk.sec - SecondOfDay(dt)

\* More than 4 whole days, that is, at least 5 times 24 hours.
FiveDays(dt, clk) == SecondsSince(dt, clk) >= 5 * SecondsPerDay

\* C1 as stated, "parses as snapshot_YYYYMMDD-HHMM.json" read as the form of the name:
\* a GET reports (True, None) without a snapshot_*.json file, (True, name) when the
\* greatest such name is not of that form, and otherwise (outdated, name) with
\* outdated exactly when five days or more have passed since the name's minute.
C1_AsStated ==
    response.status = 200 =>
        IF Matching = {} THEN response.snapshot_outdated /\ response.latest_snapshot = NoName
        ELSE /\ response.latest_snapshot = GreatestMatching
             /\ IF ~WellFormed(GreatestMatching) THEN response.snapshot_outdated
                ELSE response.snapshot_outdated <=> FiveDays(MinuteOf(GreatestMatching), clock)

\* C1, amended: the name parses when what is left of it after removing every
\* "snapshot_" and every ".json" is accepted by strptime("%Y%m%d-%H%M"), which also
\* takes fields without their leading zero.  A GET reports (True, None) without a
\* snapshot_*.json file, (True, name) when the greatest such name does not parse, and
\* otherwise (outdated, name) with outdated exactly when five days or more have
\* passed since the parsed minute; a name of the exact form parses to its own minute.
C1_Staleness ==
    response.status = 200 =>
        IF Matching = {} THEN response.snapshot_outdated /\ response.latest_snapshot = NoName
        ELSE LET t == Strptime(TimestampStr(GreatestMatching))
             IN  /\ response.latest_snapshot = GreatestMatching
                 /\ (~t.ok => response.snapshot_outdated)
                 /\ (t.ok => (response.snapshot_outdated <=> FiveDays(t, clock)))
                 /\ (WellFormed(GreatestMatching) => t = MinuteOf(GreatestMatching))

\* A snapshot aged 4 days 23 hours 59 minutes 59 seconds is reported as not outdated.
C1_Witness ==
    /\ response.status = 200
    /\ Matching # {}
    /\ WellFormed(GreatestMatching)
    /\ SecondsSince(MinuteOf(GreatestMatching), clock) = 5 * SecondsPerDay - 1
    /\ ~response.snapshot_outdated

(***************************************************************************)
(* C2: a GET of / reads the snapshot and nothing else                      *)
(***************************************************************************)

\* A step that is a GET of / makes no remote lookup and leaves stock_info_cache and
\* the snapshot folder as they were.
GetChangesNothing ==
    lastOp'.op = "index_get" =>
        /\ remote_calls' = remote_calls
        /\ stock_info_cache' = stock_info_cache
        /\ files' = files

\* A step that changes the snapshot folder is the write of a fetch_data request that
\* arrived as a POST to /fetch_data, and it adds or rewrites one file.
OnlyFetchDataWrites ==
    files' # files =>
        /\ lastOp'.op = "write"
        /\ hist'[lastOp'.thread].via = "post"
        /\ \E n \in DOMAIN files' : \A m \in DOMAIN files : m # n => files'[m] = files[m]

\* C2: every GET of / (any tickers, view and snapshot age) renders from the snapshot
\* alone: no live lookup, no change to stock_info_cache or to the snapshot files; a
\* snapshot file is written only by a POST to /fetch_data.
C2_RenderFromSnapshotOnly == [][GetChangesNothing /\ OnlyFetchDataWrites]_vars

\* A GET with tickers has been answered while the newest snapshot was outdated.
C2_Witness ==
    /\ lastOp.op = "index_get"
    /\ response.status = 200
    /\ response.passed # << >>
    /\ response.latest_snapshot # NoName
    /\ response.snapshot_outdated

(***************************************************************************)
(* C3: the "Fetch Updated Data" button                                     *)
(***************************************************************************)

\* C3: when the button is pressed (a POST to / with a non-empty fetch_data field) the
\* request is redirected to fetch_data and the fetch_data handler then runs: the
\* client's follow-up request is never refused, it starts a fetch_data run.
C3_ButtonRunsFetchData ==
    (lastOp.op \in {"begin", "refused"} /\ lastOp.via = "redirect") =>
        (lastOp.op = "begin" /\ Active(lastOp.thread))

(***************************************************************************)
(* C9: the tickers form                                                    *)
(***************************************************************************)

Chars(s) == {s[i] : i \in 1..Len(s)}

\* A ticker as the form handler leaves it: not blank, trimmed, without a lower-case
\* letter or a comma.
Normalised(t) ==
    /\ t # << >>
    /\ t[1] # " " /\ t[Len(t)] # " "
    /\ Chars(t) \cap {"a", "b", "c", ","} = {}

\* What a POST without the button answers: a redirect to / that carries the
\* normalised list, or, when the list is empty, an error flash and no query.
PostAnswer ==
    (lastOp.op = "index_post" /\ ~lastOp.button) =>
        /\ response.status = RedirectCode /\ response.endpoint = "index"
        /\ \A i \in 1..Len(lastOp.tickers) : Normalised(lastOp.tickers[i])
        /\ IF lastOp.tickers = << >>
           THEN response.query = EmptyDict /\ response.flashes = <<EmptyTickersMsg>>
           ELSE /\ response.flashes = << >>
                /\ Split(UrlUnquote(response.query["tickers"])) = lastOp.tickers

\* Entries are trimmed and upper-cased, blank entries dropped, order, duplicates and
\* inner spaces kept.
PostExamples ==
    lastOp.op = "index_post" =>
        /\ lastOp.raw = <<" ", "a", ",", "B">> => lastOp.tickers = <<<<"A">>, <<"B">>>>
        /\ lastOp.raw = <<"B", ",", ",", "a">> => lastOp.tickers = <<<<"B">>, <<"A">>>>
        /\ lastOp.raw = <<"a", ",", " ", ",", "a">> => lastOp.tickers = <<<<"A">>, <<"A">>>>
        /\ lastOp.raw = <<"a", " ", "B", " ">> => lastOp.tickers = <<<<"A", " ", "B">>>>
        /\ lastOp.raw = <<",", " ", ",">> => lastOp.tickers = << >>

\* The GET that follows the redirect hands the chart generator the list the POST computed.
GetRepeatsPost ==
    (lastOp.op = "index_post" /\ lastOp'.op = "index_get" /\ lastOp'.via = "redirect") =>
        response'.passed = lastOp.tickers

\* C9: a POST to / without the fetch_data field normalises the tickers field and
\* redirects to / with the normalised list (or flashes an error and redirects without
\* a query when it is empty); normalising is idempotent, so the following GET passes
\* the chart generator the same list.
C9_FormRoundTrip == [](PostAnswer /\ PostExamples) /\ [][GetRepeatsPost]_vars

\* The GET after the redirect has passed on a list whose second entry keeps its inner space.
C9_Witness ==
    /\ lastOp.op = "index_get" /\ lastOp.via = "redirect"
    /\ response.status = 200
    /\ response.passed = <<<<"A">>, <<"A", " ", "B">>>>

(***************************************************************************)
(* C8: what the chart generators flash and return                          *)
(***************************************************************************)

Present(df, t) == t \in df.index

HasSector(df, t) == Present(df, t) /\ "sector" \in DOMAIN df.rows[t] /\ df.rows[t]["sector"] # Null

\* The flashes of a sector chart: for every ticker, as many "not found" messages as
\* the list asks for it when the snapshot lacks it, as many "missing sector" messages
\* when its sector is null, none otherwise; and nothing else is flashed.
SectorFlashRule(tickers, df, flashes) ==
    /\ \A t \in {TA, TB, TC} :
          LET asked == Cardinality({i \in 1..Len(tickers) : tickers[i] = t})
              notFound == Cardinality({i \in 1..Len(flashes) : flashes[i] = NotFoundMsg(t)})
              noSector == Cardinality({i \in 1..Len(flashes) : flashes[i] = MissingSectorMsg(t)})
          IN  /\ notFound = IF Present(df, t) THEN 0 ELSE asked
              /\ noSector = IF Present(df, t) /\ ~HasSector(df, t) THEN asked ELSE 0
    /\ Len(flashes) = Cardinality({i \in 1..Len(tickers) : ~HasSector(df, tickers[i])})

\* A sector chart generator returns None exactly when no requested ticker is in the
\* snapshot with a sector.
SectorNoneRule(tickers, df, graph) ==
    (graph.kind = "None") <=> ~\E i \in 1..Len(tickers) : HasSector(df, tickers[i])

SectorRule(tickers, df, out) ==
    SectorFlashRule(tickers, df, out.flashes) /\ SectorNoneRule(tickers, df, out.graph)

\* The sharpe generator returns a chart with one trace per list entry, in order, with
\* base price 100 for a ticker that is absent or has no price.
SharpeRule(tickers, df, out) ==
    /\ out.graph.kind = "chart"
    /\ Len(out.graph.data) = Len(tickers)
    /\ \A i \in 1..Len(tickers) :
          /\ out.graph.data[i].name = tickers[i]
          /\ (~Present(df, tickers[i]) \/ "regularMarketPrice" \notin DOMAIN df.rows[tickers[i]])
                => out.graph.data[i].base_price = 100

SectorViews == {<<"pe">>, <<"pe_growth">>, <<"pb_roe">>}

\* C8: each of the three sector charts flashes exactly one error per requested ticker
\* that is absent from the snapshot or present with a null sector, and returns None
\* exactly when no requested ticker is present with a non-null sector; the sharpe chart
\* always has one trace per requested ticker, with base price 100 for a ticker that is
\* absent or has no regularMarketPrice. The page shows what the generator of its view
\* flashed and returned.
C8_ChartMessages ==
    lastOp.op = "index_get" =>
        LET df == load_snapshot_df(files)
            tickers == response.passed
        IN  /\ SectorRule(tickers, df, generate_pe_scatter_chart(tickers, df))
            /\ SectorRule(tickers, df, generate_trailingPE_vs_earningsGrowth_chart(tickers, df))
            /\ SectorRule(tickers, df, generate_priceToBook_vs_ROE_chart(tickers, df))
            /\ SharpeRule(tickers, df, generate_sharpe_chart(tickers, df))
            /\ (tickers # << >> /\ lastOp.view \in SectorViews) =>
                  /\ SectorFlashRule(tickers, df, response.flashes)
                  /\ response.status = 200 => SectorNoneRule(tickers, df, response.graphJSON)
                  /\ response.status # 200 => \E i \in 1..Len(tickers) : HasSector(df, tickers[i])
            /\ (tickers # << >> /\ lastOp.view = <<"sharpe">>) =>
                  /\ response.status = 200
                  /\ SharpeRule(tickers, df, [graph |-> response.graphJSON])

\* A pe page drawn for a list with a ticker the snapshot lacks, a ticker without a
\* sector and a ticker with one: two flashes and a chart.
C8_Witness ==
    /\ lastOp.op = "index_get" /\ lastOp.view = <<"pe">>
    /\ response.status = 200
    /\ response.graphJSON.kind = "chart"
    /\ response.passed = <<TC, TA, TB>>
    /\ response.flashes = <<NotFoundMsg(TC), MissingSectorMsg(TA)>>

(***************************************************************************)
(* C4: the cache has no eviction                                           *)
(***************************************************************************)

\* The thread whose get_stock_info call this step belongs to, if any: the cache
\* lookup (from "loop") or the remote lookup (from "gsi_fetch").
GsiStepOf(p) ==
    \/ (pc[p] = "loop" /\ pc'[p] \in {"store", "gsi_fetch"})
    \/ (pc[p] = "gsi_fetch" /\ pc'[p] = "store")

\* A get_stock_info step keeps every key; when no other request wrote to the cache
\* since the call began, every entry also keeps its value.
NoEviction(p) ==
    GsiStepOf(p) =>
        /\ DOMAIN stock_info_cache \subseteq DOMAIN stock_info_cache'
        /\ ~hist[p].raced =>
              \A k \in DOMAIN stock_info_cache : stock_info_cache'[k] = stock_info_cache[k]

\* A call for a symbol that is cached returns the cached info and makes no remote lookup.
HitReturnsCached(p) ==
    (pc[p] = "loop" /\ pc'[p] \in {"store", "gsi_fetch"}
        /\ NormSymbol(cur'[p]) \in DOMAIN stock_info_cache) =>
        /\ pc'[p] = "store"
        /\ info'[p] = stock_info_cache[NormSymbol(cur'[p])]
        /\ remote_calls' = remote_calls
        /\ stock_info_cache' = stock_info_cache

\* C4: the cache has no eviction: a get_stock_info call, whatever the symbol and whether
\* the remote lookup succeeds or raises, only adds keys and neither removes nor replaces
\* an entry, and a call for a symbol already cached returns the cached info without a
\* remote lookup.
C4_NoEviction == [][\A p \in Threads : NoEviction(p) /\ HitReturnsCached(p)]_vars

\* A call has been answered from the cache while the cache held two entries.
C4_Witness ==
    /\ lastOp.op = "gsi_check" /\ lastOp.hit
    /\ info[lastOp.thread] = stock_info_cache[cur[lastOp.thread]]
    /\ Cardinality(DOMAIN stock_info_cache) = 2

(***************************************************************************)
(* C5: two fetch_data requests at the same time                            *)
(***************************************************************************)

\* C5: without concurrency control a fetch_data request can write a snapshot that
\* lacks a ticker it had fetched with sector info: whenever a written snapshot lacks
\* such a ticker, another request rebound stock_info_cache after this request had
\* fetched it.
C5_LossOnlyByRebinding ==
    \A p \in Threads :
        hist[p].wrote =>
            (WithSector(hist[p]) \ DOMAIN hist[p].data) \subseteq hist[p].clobbered

\* A request has written a snapshot without a ticker that it had fetched with sector
\* info before another request rebound the cache during its loop.
C5_Witness ==
    \E p \in Threads :
        /\ hist[p].wrote
        /\ \E t \in hist[p].inloop : t \notin DOMAIN hist[p].data /\ t \notin hist[p].hits

(***************************************************************************)
(* C6: tickers without sector info                                         *)
(***************************************************************************)

\* C6: in a sequential run the snapshot that fetch_data writes (and stock_info_cache
\* afterwards) has an entry for a ticker only if the ticker is a Symbol of an index
\* CSV and its fetched info has a "sector" key.
C6_SnapshotOnlyWithSector ==
    (hist[Worker].wrote /\ ~Active(Worker)) =>
        /\ DOMAIN hist[Worker].data \subseteq AllTickers \cap WithSector(hist[Worker])
        /\ DOMAIN stock_info_cache \subseteq AllTickers \cap WithSector(hist[Worker])

(***************************************************************************)
(* C7: a remote lookup that raises                                         *)
(***************************************************************************)

\* The step is a remote lookup of thread p that raised.
RaiseStep(p) ==
    pc[p] = "gsi_fetch" /\ pc'[p] = "store" /\ cur[p] \in hist'[p].raised

\* The lookup that raises returns {} and leaves the cache alone; the write flashes the
\* success message and redirects to index.
RaiseIsCaught ==
    \A p \in Threads :
        /\ RaiseStep(p) => info'[p] = EmptyDict /\ stock_info_cache' = stock_info_cache
        /\ (pc[p] = "loop" /\ pc'[p] = "idle") =>
              /\ DOMAIN files' = DOMAIN files \cup {SnapshotName(clock)}
              /\ response' = Redirect("index", EmptyDict, <<UpdatedMsg>>)

\* A request that wrote its snapshot had gone through every ticker.
WentThroughAll == \A p \in Threads : hist[p].wrote => DOMAIN hist[p].got = AllTickers

\* C7 as stated: the snapshot a request writes never has the ticker whose lookup
\* raised in that request.
C7_AsStated ==
    \A p \in Threads : hist[p].wrote => hist[p].raised \cap DOMAIN hist[p].data = {}

\* C7, amended: a lookup that raises is caught: get_stock_info returns {} and leaves
\* stock_info_cache unchanged, fetch_data goes on with the remaining tickers, writes
\* its snapshot and flashes "Data updated successfully."; the snapshot is without the
\* failed ticker when no other fetch_data request ran at the same time.
C7_FailedFetch ==
    /\ [][RaiseIsCaught]_vars
    /\ [](WentThroughAll /\
            \A p \in Threads :
               (hist[p].wrote /\ ~hist[p].overlap) =>
                   hist[p].raised \cap DOMAIN hist[p].data = {})

\* A request that ran alone has written a snapshot with one ticker after the lookup of
\* the other one raised.
C7_Witness ==
    \E p \in Threads :
        /\ hist[p].wrote /\ ~hist[p].overlap
        /\ Cardinality(hist[p].raised) = 1
        /\ DOMAIN hist[p].data = AllTickers \ hist[p].raised
        /\ response = Redirect("index", EmptyDict, <<UpdatedMsg>>)

(***************************************************************************)
(* C10: the snapshot a GET loads after fetch_data                          *)
(***************************************************************************)

\* After a fetch_data has completed, a GET selects the file it wrote, for the staleness
\* test and for the data alike.
LoadsWhatWasWritten ==
    (lastOp.op = "index_get" /\ lastWrite.done) =>
        /\ is_snapshot_outdated(files, clock).latest = lastWrite.name
        /\ load_snapshot_df(files) = FromDict(lastWrite.data)
        /\ files[lastWrite.name] = lastWrite.data
        /\ \A n \in DOMAIN files : n = lastWrite.name \/ StrLess(n, lastWrite.name)
        /\ response.status = 200 => response.latest_snapshot = lastWrite.name

\* The same minute of the same day.
SameMinute(a, b) == a.ord = b.ord /\ a.sec \div 60 = b.sec \div 60

\* A write in the minute of the write before it goes to the same file, which then holds
\* the later data; no step removes a file.
OverwriteNeverDelete ==
    /\ DOMAIN files \subseteq DOMAIN files'
    /\ (lastOp'.op = "write" /\ lastWrite.done /\ lastWrite' # lastWrite
           /\ SameMinute(lastWrite.at, lastWrite'.at)) =>
          /\ lastWrite'.name = lastWrite.name
          /\ DOMAIN files' = DOMAIN files
          /\ files'[lastWrite.name] = lastWrite'.data

\* C10 as stated: the GET that follows a completed fetch_data reports the written file
\* and snapshot_outdated = False.
C10_AsStated ==
    (lastOp.op = "index_get" /\ lastWrite.done /\ response.status = 200) =>
        /\ response.latest_snapshot = lastWrite.name
        /\ response.snapshot_outdated = FALSE

\* C10, amended: from an empty folder, with sequential requests and a non-decreasing
\* clock, the GET that follows a completed fetch_data loads exactly the snapshot it
\* wrote (the greatest name is the latest written) and reports snapshot_outdated =
\* False when fewer than five days have passed since the minute in the file's name,
\* True otherwise; two runs in one UTC minute write the same file, the later
\* overwriting the earlier; no snapshot file is ever deleted.
C10_LoadsLatest ==
    /\ [](LoadsWhatWasWritten /\
            ((lastOp.op = "index_get" /\ lastWrite.done /\ response.status = 200) =>
                (response.snapshot_outdated <=> FiveDays(MinuteOf(lastWrite.name), clock))))
    /\ [][OverwriteNeverDelete]_vars

\* A GET after two runs, the first in 2024 and the second in 2025, reports the second
\* run's file and that it is fresh.
C10_Witness ==
    /\ lastOp.op = "index_get" /\ lastWrite.done
    /\ response.status = 200
    /\ Cardinality(DOMAIN files) = 2
    /\ response.latest_snapshot = lastWrite.name
    /\ SubSeq(lastWrite.name, 10, 13) = <<"2", "0", "2", "5">>
    /\ ~response.snapshot_outdated

====
